---- MODULE Spec2Model ----
(***************************************************************************)
(* Model of the Microsoft Defender for Endpoint adapter of surveyor        *)
(* (products/microsoft_defender_for_endpoints.py): the base-query builder  *)
(* build_query, the criteria expander nested_process_search with the       *)
(* search operation process_search, and the search executor                *)
(* _post_advanced_query.                                                   *)
(*                                                                         *)
(* Python strings are TLA+ strings (\o is +, Len is len, SubSeq slices).   *)
(* A dict is the sequence of its items in insertion order, which is the    *)
(* order .items() iterates in.                                             *)
(***************************************************************************)
EXTENDS Integers, Sequences, FiniteSets, TLC

VARIABLES
    criteria,      \* nested_process_search: the criteria dict (items in order)
    base_query,    \* the base-filter dict (items in order)
    pc,            \* position of the running method
    i,             \* index of the criteria item (or response row) being processed
    j,             \* index in a list-form `query` value
    query_base,    \* local query_base (line 129), or build_query's return value
    call,          \* arguments of the process_search call in progress (<<>>: none)
    queries,       \* full_query of every completed process_search call (line 121)
    echo,          \* every self._echo(...) call, in order
    posted,        \* every _post_advanced_query call made by process_search
    results,       \* local `results` set of the running method
    sink,          \* every self._add_results(...) call, in order
    interrupted,   \* a KeyboardInterrupt was caught by the running method
    response,      \* _post_advanced_query: what requests.post(...) does
    returned,      \* _post_advanced_query: <<return value>> once it returned
    log_exception  \* every self.log.exception(e) call, in order

vars == <<criteria, base_query, pc, i, j, query_base, call, queries, echo, posted,
          results, sink, interrupted, response, returned, log_exception>>

---------------------------------------------------------------------------
(* Bounds of the model. *)

MaxFilters == 3     \* items of a base-filter dict given to build_query alone
MaxCriteria == 2    \* items of a criteria dict
MaxRows == 2        \* rows of a response's Results

---------------------------------------------------------------------------
(* Strings. *)

\* The characters str.rstrip() removes (ASCII whitespace).
Whitespace == {" ", "\t", "\n", "\r", "\f"}

RECURSIVE rstrip(_)
rstrip(s) ==
    IF Len(s) = 0 THEN s
    ELSE IF SubSeq(s, Len(s), Len(s)) \in Whitespace
         THEN rstrip(SubSeq(s, 1, Len(s) - 1))
         ELSE s

RECURSIVE join(_, _)
join(sep, parts) ==
    IF Len(parts) = 0 THEN ""
    ELSE IF Len(parts) = 1 THEN parts[1]
         ELSE parts[1] \o sep \o join(sep, Tail(parts))

\* f"{value}" of a filter value: an int prints in decimal, a str as itself.
format(value) == IF value.int THEN ToString(value.n) ELSE value.s

IntValue(n) == [int |-> TRUE, n |-> n, s |-> ""]
StrValue(s) == [int |-> FALSE, n |-> 0, s |-> s]

product == "dfe"

\* One self._echo(message, level) call; DEFAULT when no level is passed.
Echo(message, level) == [message |-> message, level |-> level]

NotSupported(key) ==
    Echo("Query filter " \o key \o " is not supported by product " \o product, "WARNING")

---------------------------------------------------------------------------
(* build_query (lines 161-176). *)

\* The mutant: the minutes clause is written with the days unit.
clause_minutes_as_days(key, value) ==
    IF key = "days" THEN <<"| where Timestamp > ago(" \o format(value) \o "d)">>
    ELSE IF key = "minutes" THEN <<"| where Timestamp > ago(" \o format(value) \o "d)">>
    ELSE IF key = "hostname" THEN <<"| where DeviceName contains \"" \o format(value) \o "\"">>
    ELSE IF key = "username" THEN <<"| where AccountName contains \"" \o format(value) \o "\"">>
    ELSE <<>>

\* The if/elif chain of the loop body: <<text appended to query_base>> for a
\* recognized key, <<>> for the else branch.
clause(key, value) ==
    IF key = "days" THEN <<"| where Timestamp > ago(" \o format(value) \o "d)">>
    ELSE IF key = "minutes" THEN <<"| where Timestamp > ago(" \o format(value) \o "m)">>
    ELSE IF key = "hostname" THEN <<"| where DeviceName contains \"" \o format(value) \o "\"">>
    ELSE IF key = "username" THEN <<"| where AccountName contains \"" \o format(value) \o "\"">>
    ELSE <<>>

RECURSIVE build_query_loop(_, _, _)
build_query_loop(filters, k, acc) ==
    IF k > Len(filters) THEN acc
    ELSE LET c == clause(filters[k].key, filters[k].value)
         IN  build_query_loop(filters, k + 1,
                 IF c # <<>>
                 THEN [acc EXCEPT !.query_base = @ \o c[1]]
                 ELSE [acc EXCEPT !.echo = Append(@, NotSupported(filters[k].key))])

\* The return value, and the _echo calls made on the way.
build_query(filters) == build_query_loop(filters, 1, [query_base |-> "", echo |-> <<>>])

---------------------------------------------------------------------------
(* Inputs. *)

Range(s) == {s[k] : k \in 1..Len(s)}

\* Sequences of at most n elements of S whose `key` fields are distinct: the
\* items of a dict.
Dicts(S, n) ==
    UNION {{d \in [1..m -> S] : \A a, b \in 1..m : a # b => d[a].key # d[b].key}
           : m \in 0..n}

FilterItems ==
    {[key |-> "days", value |-> IntValue(7)],
     [key |-> "minutes", value |-> IntValue(30)],
     [key |-> "hostname", value |-> StrValue("WIN10")],
     [key |-> "username", value |-> StrValue("bob")],
     [key |-> "limit", value |-> IntValue(5)]}

NoResponse == [net |-> "none", status_code |-> 0, json |-> FALSE, message |-> "",
               Results |-> <<>>]

---------------------------------------------------------------------------
(* build_query called on its own. *)

InitBuild ==
    /\ base_query \in Dicts(FilterItems, MaxFilters)
    /\ criteria = <<>>
    /\ pc = "build_query"
    /\ i = 0 /\ j = 0
    /\ query_base = ""
    /\ call = <<>> /\ queries = <<>> /\ echo = <<>> /\ posted = <<>>
    /\ results = {} /\ sink = <<>> /\ interrupted = FALSE
    /\ response = NoResponse /\ returned = <<>> /\ log_exception = <<>>

BuildQuery ==
    /\ pc = "build_query"
    /\ query_base' = build_query(base_query).query_base
    /\ echo' = echo \o build_query(base_query).echo
    /\ pc' = "built"
    /\ UNCHANGED <<criteria, base_query, i, j, call, queries, posted, results, sink,
                   interrupted, response, returned, log_exception>>

NextBuild == BuildQuery

SpecBuild == InitBuild /\ [][NextBuild]_vars

---------------------------------------------------------------------------
(* PARAMETER_MAPPING (lines 10-32).  `additional` is <<>> where the entry has
   no 'additional' key. *)

ProcessProjections == <<"DeviceName", "AccountName", "FolderPath", "ProcessCommandLine">>

InitiatingProjections ==
    <<"DeviceName", "InitiatingProcessAccountName", "InitatingProcessFolderPath",
      "ProcessCommandLine">>

PARAMETER_MAPPING ==
    [process_name |->
        [table |-> "DeviceProcessEvents", field |-> "FolderPath",
         additional |-> <<>>, projections |-> ProcessProjections],
     filemod |->
        [table |-> "DeviceFileEvents", field |-> "FolderPath",
         additional |-> <<>>, projections |-> InitiatingProjections],
     ipaddr |->
        [table |-> "DeviceNetworkEvents", field |-> "RemoteIP",
         additional |-> <<>>, projections |-> InitiatingProjections],
     cmdline |->
        [table |-> "DeviceProcessEvents", field |-> "ProcessCommandLine",
         additional |-> <<>>, projections |-> ProcessProjections],
     digsig_publisher |->
        [table |-> "DeviceFileCertificateInfo", field |-> "Signer",
         additional |->
            <<"| join kind=inner DeviceProcessEvents on $left.SHA1 == $right.SHA1">>,
         projections |-> ProcessProjections],
     domain |->
        [table |-> "DeviceNetworkEvents", field |-> "RemoteUrl",
         additional |-> <<>>, projections |-> InitiatingProjections],
     internal_name |->
        [table |-> "DeviceProcessEvents", field |-> "ProcessVersionInfoInternalFileName",
         additional |-> <<>>, projections |-> ProcessProjections],
     md5 |->
        [table |-> "DeviceProcessEvents", field |-> "MD5",
         additional |-> <<>>, projections |-> ProcessProjections],
     sha1 |->
        [table |-> "DeviceProcessEvents", field |-> "SHA1",
         additional |-> <<>>, projections |-> ProcessProjections],
     sha256 |->
        [table |-> "DeviceProcessEvents", field |-> "SHA256",
         additional |-> <<>>, projections |-> ProcessProjections]]

---------------------------------------------------------------------------
(* process_search (lines 115-124). *)

\* The call's effects: the full_query it forms (line 121), the _echo calls of
\* its build_query, and the _post_advanced_query and _add_results calls it
\* makes: none, lines 123-124 being comments.
process_search(base, query) ==
    LET built == build_query(base)
    IN  [full_query |-> [Query |-> rstrip(query \o built.query_base)],
         echo |-> built.echo,
         posted |-> <<>>,
         added |-> <<>>]

---------------------------------------------------------------------------
(* nested_process_search (lines 126-159). *)

\* The mutant: the terms are joined without their quotes.
all_terms_unquoted(terms) == join(", ", terms)

\* Line 141: ', '.join(f"'{term}'" for term in terms).
all_terms(terms) == join(", ", [k \in 1..Len(terms) |-> "'" \o terms[k] \o "'"])

\* Lines 143-153: the query of a mapped search field.
field_query(search_field, terms, base) ==
    LET m == PARAMETER_MAPPING[search_field]
        where == "| where " \o m.field \o " has_any (" \o all_terms(terms) \o ")"
        q1 == m.table \o " " \o where \o " "
        q2 == q1 \o (IF m.additional # <<>> THEN m.additional[1] ELSE "")
    IN  q2 \o " " \o base \o " | project " \o join(", ", m.projections)

Terms(list, items) == [list |-> list, items |-> items]

RawQueries ==
    {"DeviceEvents | where ActionType == 'AntivirusDetection'",
     "DeviceInfo | take 1 \n"}

\* The criteria items a call is given: every mapped field, an unmapped field,
\* and the `query` key in list and in scalar form.
CriteriaItems ==
    {[key |-> f, terms |-> Terms(TRUE, <<"evil.exe">>)] : f \in DOMAIN PARAMETER_MAPPING}
    \cup {[key |-> "process_name", terms |-> Terms(TRUE, <<"evil.exe", "cmd.exe">>)],
          [key |-> "bogus_field", terms |-> Terms(TRUE, <<"x">>)],
          [key |-> "query", terms |-> Terms(TRUE, <<>>)]}
    \cup {[key |-> "query", terms |-> Terms(TRUE, <<q>>)] : q \in RawQueries}
    \cup {[key |-> "query", terms |-> Terms(TRUE, <<q1, q2>>)] : q1, q2 \in RawQueries}
    \cup {[key |-> "query", terms |-> Terms(FALSE, <<q>>)] : q \in RawQueries}

BaseFilterCases ==
    {<< >>,
     <<[key |-> "days", value |-> IntValue(7)],
       [key |-> "hostname", value |-> StrValue("WIN10")]>>,
     <<[key |-> "limit", value |-> IntValue(5)]>>,
     <<[key |-> "username", value |-> StrValue("bob")],
       [key |-> "limit", value |-> IntValue(5)],
       [key |-> "minutes", value |-> IntValue(30)]>>}

Init ==
    /\ criteria \in Dicts(CriteriaItems, MaxCriteria)
    /\ base_query \in BaseFilterCases
    /\ pc = "nested_process_search"
    /\ i = 0 /\ j = 0
    /\ query_base = ""
    /\ call = <<>> /\ queries = <<>> /\ echo = <<>> /\ posted = <<>>
    /\ results = {} /\ sink = <<>> /\ interrupted = FALSE
    /\ response = NoResponse /\ returned = <<>> /\ log_exception = <<>>

exec_unchanged == <<response, returned, log_exception>>

\* Lines 127-129.
Enter ==
    /\ pc = "nested_process_search"
    /\ results' = {}
    /\ query_base' = build_query(base_query).query_base
    /\ echo' = echo \o build_query(base_query).echo
    /\ pc' = "for" /\ i' = 1
    /\ UNCHANGED <<criteria, base_query, j, call, queries, posted, sink, interrupted>>
    /\ UNCHANGED exec_unchanged

\* A KeyboardInterrupt before the try statement is entered leaves the method.
InterruptOutsideTry ==
    /\ pc = "nested_process_search"
    /\ pc' = "raised"
    /\ UNCHANGED <<criteria, base_query, i, j, query_base, call, queries, echo, posted,
                   results, sink, interrupted>>
    /\ UNCHANGED exec_unchanged

\* Lines 133-135: a list under `query`.
QueryList ==
    /\ pc = "for" /\ i <= Len(criteria)
    /\ criteria[i].key = "query" /\ criteria[i].terms.list
    /\ pc' = "for_query" /\ j' = 1
    /\ UNCHANGED <<criteria, base_query, i, query_base, call, queries, echo, posted,
                   results, sink, interrupted>>
    /\ UNCHANGED exec_unchanged

\* The mutant: the list branch passes base_query on, as the scalar branch does.
QueryListEntry_passes_base_query ==
    /\ pc = "for_query" /\ j <= Len(criteria[i].terms.items)
    /\ call' = <<[base_query |-> base_query,
                  query |-> criteria[i].terms.items[j] \o query_base]>>
    /\ pc' = "process_search"
    /\ UNCHANGED <<criteria, base_query, i, j, query_base, queries, echo, posted,
                   results, sink, interrupted>>
    /\ UNCHANGED exec_unchanged

\* Lines 135-137: query_entry += query_base; the call of process_search.
QueryListEntry ==
    /\ pc = "for_query" /\ j <= Len(criteria[i].terms.items)
    /\ call' = <<[base_query |-> << >>,
                  query |-> criteria[i].terms.items[j] \o query_base]>>
    /\ pc' = "process_search"
    /\ UNCHANGED <<criteria, base_query, i, j, query_base, queries, echo, posted,
                   results, sink, interrupted>>
    /\ UNCHANGED exec_unchanged

QueryListEnd ==
    /\ pc = "for_query" /\ j > Len(criteria[i].terms.items)
    /\ pc' = "for" /\ i' = i + 1 /\ j' = 0
    /\ UNCHANGED <<criteria, base_query, query_base, call, queries, echo, posted,
                   results, sink, interrupted>>
    /\ UNCHANGED exec_unchanged

\* Lines 138-139: anything else under `query`.
QueryScalar ==
    /\ pc = "for" /\ i <= Len(criteria)
    /\ criteria[i].key = "query" /\ ~criteria[i].terms.list
    /\ call' = <<[base_query |-> base_query, query |-> criteria[i].terms.items[1]]>>
    /\ pc' = "process_search"
    /\ UNCHANGED <<criteria, base_query, i, j, query_base, queries, echo, posted,
                   results, sink, interrupted>>
    /\ UNCHANGED exec_unchanged

\* Lines 141-143, 149-155: a mapped search field.
FieldSearch ==
    /\ pc = "for" /\ i <= Len(criteria)
    /\ criteria[i].key # "query"
    /\ criteria[i].key \in DOMAIN PARAMETER_MAPPING
    /\ call' = <<[base_query |-> << >>,
                  query |-> field_query(criteria[i].key, criteria[i].terms.items,
                                        query_base)]>>
    /\ pc' = "process_search"
    /\ UNCHANGED <<criteria, base_query, i, j, query_base, queries, echo, posted,
                   results, sink, interrupted>>
    /\ UNCHANGED exec_unchanged

\* The mutant: break in place of continue.
FieldNotSupported_breaks ==
    /\ pc = "for" /\ i <= Len(criteria)
    /\ criteria[i].key # "query"
    /\ criteria[i].key \notin DOMAIN PARAMETER_MAPPING
    /\ echo' = Append(echo, NotSupported(criteria[i].key))
    /\ pc' = "add_results"
    /\ UNCHANGED <<criteria, base_query, i, j, query_base, call, queries, posted,
                   results, sink, interrupted>>
    /\ UNCHANGED exec_unchanged

\* Lines 144-147: an unmapped search field.
FieldNotSupported ==
    /\ pc = "for" /\ i <= Len(criteria)
    /\ criteria[i].key # "query"
    /\ criteria[i].key \notin DOMAIN PARAMETER_MAPPING
    /\ echo' = Append(echo, NotSupported(criteria[i].key))
    /\ i' = i + 1
    /\ UNCHANGED <<criteria, base_query, pc, j, query_base, call, queries, posted,
                   results, sink, interrupted>>
    /\ UNCHANGED exec_unchanged

\* The mutant: the list loop is left after its first search.
after_search_leaves_list(item) == "for"

\* Where the loop is resumed when the process_search call returns.
after_search(item) == IF item.key = "query" /\ item.terms.list THEN "for_query" ELSE "for"

\* The body of process_search, and the return to the loop.
ProcessSearch ==
    /\ pc = "process_search"
    /\ LET r == process_search(call[1].base_query, call[1].query)
       IN  /\ queries' = Append(queries, [Query |-> r.full_query.Query,
                                          entry |-> i, item |-> j])
           /\ echo' = echo \o r.echo
           /\ posted' = posted \o r.posted
           /\ sink' = sink \o r.added
    /\ call' = <<>>
    /\ pc' = after_search(criteria[i])
    /\ i' = IF after_search(criteria[i]) = "for" THEN i + 1 ELSE i
    /\ j' = IF after_search(criteria[i]) = "for" THEN 0 ELSE j + 1
    /\ UNCHANGED <<criteria, base_query, query_base, results, interrupted>>
    /\ UNCHANGED exec_unchanged

\* The for loop is exhausted.
ForEnd ==
    /\ pc = "for" /\ i > Len(criteria)
    /\ pc' = "add_results"
    /\ UNCHANGED <<criteria, base_query, i, j, query_base, call, queries, echo, posted,
                   results, sink, interrupted>>
    /\ UNCHANGED exec_unchanged

\* The mutant: no except clause, the KeyboardInterrupt leaves the method.
KeyboardInterrupt_propagates ==
    /\ pc \in {"for", "for_query", "process_search"}
    /\ interrupted' = TRUE
    /\ call' = <<>>
    /\ pc' = "raised"
    /\ UNCHANGED <<criteria, base_query, i, j, query_base, queries, echo, posted,
                   results, sink>>
    /\ UNCHANGED exec_unchanged

\* Lines 156-157: a KeyboardInterrupt anywhere in the try statement, a
\* process_search call in progress included.
KeyboardInterrupt ==
    /\ pc \in {"for", "for_query", "process_search"}
    /\ echo' = Append(echo, Echo("Caught CTRL-C. Returning what we have...", "DEFAULT"))
    /\ interrupted' = TRUE
    /\ call' = <<>>
    /\ pc' = "add_results"
    /\ UNCHANGED <<criteria, base_query, i, j, query_base, queries, posted, results, sink>>
    /\ UNCHANGED exec_unchanged

\* Line 159.
AddResults ==
    /\ pc = "add_results"
    /\ sink' = Append(sink, results)
    /\ pc' = "done"
    /\ UNCHANGED <<criteria, base_query, i, j, query_base, call, queries, echo, posted,
                   results, interrupted>>
    /\ UNCHANGED exec_unchanged

Next ==
    \/ Enter
    \/ InterruptOutsideTry
    \/ QueryList
    \/ QueryListEntry
    \/ QueryListEnd
    \/ QueryScalar
    \/ FieldSearch
    \/ FieldNotSupported
    \/ ProcessSearch
    \/ ForEnd
    \/ KeyboardInterrupt
    \/ AddResults

Spec == Init /\ [][Next]_vars

---------------------------------------------------------------------------
(* _post_advanced_query (lines 85-106). *)

Columns == <<"DeviceName", "AccountName", "ProcessCommandLine", "FolderPath", "Timestamp">>

\* A row of the response's Results: each column holds <<value>>, or <<>> when
\* the row lacks the column.
Row(device, account, cmdline, folder, timestamp) ==
    [DeviceName |-> device, AccountName |-> account, ProcessCommandLine |-> cmdline,
     FolderPath |-> folder, Timestamp |-> timestamp]

Rows ==
    {Row(<<"WIN10">>, <<"bob">>, <<"evil.exe -x">>, <<"C:\\evil.exe">>, <<"2024-01-01">>),
     Row(<<"SRV01">>, <<"eve">>, <<"cmd.exe /c">>, <<"C:\\cmd.exe">>, <<"2024-01-02">>),
     Row(<<"WIN10">>, <<>>, <<"evil.exe -x">>, <<"C:\\evil.exe">>, <<"2024-01-01">>)}

\* What requests.post(...) does: it raises (net = "ConnectionError") or returns a
\* response with a status code and a body; json says whether the body decodes
\* as JSON, message is str(response.json()) of an error body, Results the rows
\* of a success body.
Responses ==
    {[net |-> "ConnectionError", status_code |-> 0, json |-> FALSE, message |-> "",
      Results |-> <<>>]}
    \cup {[net |-> "ok", status_code |-> 200, json |-> TRUE, message |-> "", Results |-> r]
          : r \in UNION {[1..n -> Rows] : n \in 0..MaxRows}}
    \cup {[net |-> "ok", status_code |-> 200, json |-> FALSE, message |-> "",
           Results |-> <<>>]}
    \cup {[net |-> "ok", status_code |-> c, json |-> TRUE,
           message |-> "{'error': {'code': 'Error'}}", Results |-> <<>>]
          : c \in {401, 404, 500}}
    \cup {[net |-> "ok", status_code |-> c, json |-> FALSE, message |-> "",
           Results |-> <<>>]
          : c \in {401, 404, 500}}

InitExec ==
    /\ response \in Responses
    /\ criteria = <<>> /\ base_query = <<>>
    /\ pc = "post_advanced_query"
    /\ i = 0 /\ j = 0
    /\ query_base = ""
    /\ call = <<>> /\ queries = <<>> /\ echo = <<>> /\ posted = <<>>
    /\ results = {} /\ sink = <<>> /\ interrupted = FALSE
    /\ returned = <<>> /\ log_exception = <<>>

nested_unchanged == <<criteria, base_query, j, query_base, call, queries, posted, sink>>

\* The columns a row lacks, in the order line 95 reads them.
missing(res) == SelectSeq(Columns, LAMBDA c : res[c] = <<>>)

\* Lines 95-96.
Result(res) ==
    <<res.DeviceName[1], res.AccountName[1], res.ProcessCommandLine[1], res.FolderPath[1],
      <<res.Timestamp[1]>>>>

\* Lines 102-104: the handler of any Exception raised in the try statement.
Except(e) ==
    /\ echo' = Append(echo, Echo("There was an exception " \o e, "DEFAULT"))
    /\ log_exception' = Append(log_exception, e)
    /\ pc' = "return"

JSONDecodeError == "Expecting value: line 1 column 1 (char 0)"

\* Line 86.
ExecEnter ==
    /\ pc = "post_advanced_query"
    /\ results' = {}
    /\ pc' = "post"
    /\ UNCHANGED <<i, echo, interrupted, response, returned, log_exception>>
    /\ UNCHANGED nested_unchanged

\* A KeyboardInterrupt before the try statement is entered leaves the method.
ExecInterruptOutsideTry ==
    /\ pc = "post_advanced_query"
    /\ pc' = "raised"
    /\ UNCHANGED <<i, echo, results, interrupted, response, returned, log_exception>>
    /\ UNCHANGED nested_unchanged

\* Lines 89-90.
Post ==
    /\ pc = "post"
    /\ IF response.net = "ok"
       THEN pc' = "status" /\ UNCHANGED <<echo, log_exception>>
       ELSE Except(response.net)
    /\ UNCHANGED <<i, results, interrupted, response, returned>>
    /\ UNCHANGED nested_unchanged

\* Lines 92-94: the success status; response.json()["Results"] is read.
StatusOk ==
    /\ pc = "status" /\ response.status_code = 200
    /\ IF response.json
       THEN pc' = "rows" /\ i' = 1 /\ UNCHANGED <<echo, log_exception>>
       ELSE Except(JSONDecodeError) /\ UNCHANGED i
    /\ UNCHANGED <<results, interrupted, response, returned>>
    /\ UNCHANGED nested_unchanged

\* Lines 98-99: any other status; the message formats response.json().
StatusOther ==
    /\ pc = "status" /\ response.status_code # 200
    /\ IF response.json
       THEN /\ echo' = Append(echo,
                    Echo("Received status code: " \o ToString(response.status_code)
                         \o " (message: " \o response.message \o ")", "DEFAULT"))
            /\ pc' = "return"
            /\ UNCHANGED log_exception
       ELSE Except(JSONDecodeError)
    /\ UNCHANGED <<i, results, interrupted, response, returned>>
    /\ UNCHANGED nested_unchanged

\* Lines 94-97: one row of the loop; a missing column is a KeyError.
ParseRow ==
    /\ pc = "rows" /\ i <= Len(response.Results)
    /\ LET res == response.Results[i]
       IN  IF missing(res) = <<>>
           THEN /\ results' = results \cup {Result(res)}
                /\ i' = i + 1
                /\ UNCHANGED <<pc, echo, log_exception>>
           ELSE /\ Except("'" \o missing(res)[1] \o "'")
                /\ UNCHANGED <<i, results>>
    /\ UNCHANGED <<interrupted, response, returned>>
    /\ UNCHANGED nested_unchanged

RowsEnd ==
    /\ pc = "rows" /\ i > Len(response.Results)
    /\ pc' = "return"
    /\ UNCHANGED <<i, echo, results, interrupted, response, returned, log_exception>>
    /\ UNCHANGED nested_unchanged

\* Lines 100-101: a KeyboardInterrupt anywhere in the try statement.
ExecKeyboardInterrupt ==
    /\ pc \in {"post", "status", "rows"}
    /\ echo' = Append(echo, Echo("Caught CTRL-C. Rerun surveyor", "DEFAULT"))
    /\ interrupted' = TRUE
    /\ pc' = "return"
    /\ UNCHANGED <<i, results, response, returned, log_exception>>
    /\ UNCHANGED nested_unchanged

\* Line 106: list(results); the list is modelled by the set of its elements.
Return ==
    /\ pc = "return"
    /\ returned' = <<results>>
    /\ pc' = "returned"
    /\ UNCHANGED <<i, echo, results, interrupted, response, log_exception>>
    /\ UNCHANGED nested_unchanged

NextExec ==
    \/ ExecEnter
    \/ ExecInterruptOutsideTry
    \/ Post
    \/ StatusOk
    \/ StatusOther
    \/ ParseRow
    \/ RowsEnd
    \/ ExecKeyboardInterrupt
    \/ Return

SpecExec == InitExec /\ [][NextExec]_vars

---------------------------------------------------------------------------
(* Vocabulary of the properties. *)

StartsWith(s, prefix) == Len(prefix) <= Len(s) /\ SubSeq(s, 1, Len(prefix)) = prefix

EndsWith(s, suffix) ==
    Len(suffix) <= Len(s) /\ SubSeq(s, Len(s) - Len(suffix) + 1, Len(s)) = suffix

Contains(s, part) ==
    \E a \in 1..(Len(s) - Len(part) + 1) : SubSeq(s, a, a + Len(part) - 1) = part

\* The parts of a sequence of strings, each followed by `sep` but the last.
RECURSIVE Separated(_, _)
Separated(parts, sep) ==
    IF Len(parts) = 0 THEN ""
    ELSE IF Len(parts) = 1 THEN parts[1]
         ELSE Separated(SubSeq(parts, 1, Len(parts) - 1), sep) \o sep \o parts[Len(parts)]

\* The documented clause of each recognized base-filter key: what precedes and
\* what follows the value.
RecognizedClause ==
    [days |-> <<"| where Timestamp > ago(", "d)">>,
     minutes |-> <<"| where Timestamp > ago(", "m)">>,
     hostname |-> <<"| where DeviceName contains \"", "\"">>,
     username |-> <<"| where AccountName contains \"", "\"">>]

Recognized(item) == item.key \in DOMAIN RecognizedClause

ExpectedClause(item) ==
    IF Recognized(item)
    THEN RecognizedClause[item.key][1] \o format(item.value) \o RecognizedClause[item.key][2]
    ELSE ""

\* The base clause of a base-filter dict: one clause per recognized key, in order.
ExpectedBase(filters) ==
    Separated([k \in 1..Len(filters) |-> ExpectedClause(filters[k])], "")

Unrecognized(filters) == SelectSeq(filters, LAMBDA item : ~Recognized(item))

Warnings == SelectSeq(echo, LAMBDA e : e.level = "WARNING")

WarningsFor(key) == SelectSeq(Warnings, LAMBDA e : Contains(e.message, "filter " \o key \o " is"))

\* The completed searches of criteria item n.
SearchesOf(n) == {k \in 1..Len(queries) : queries[k].entry = n}

IsRaw(item) == item.key = "query"
IsMapped(item) == ~IsRaw(item) /\ item.key \in DOMAIN PARAMETER_MAPPING
IsUnmapped(item) == ~IsRaw(item) /\ item.key \notin DOMAIN PARAMETER_MAPPING

\* The for loop has finished the iteration of criteria item n.
Processed(n) == n \in 1..Len(criteria) /\ n < i

Scenario7Days ==
    <<[key |-> "days", value |-> IntValue(7)],
      [key |-> "hostname", value |-> StrValue("WIN10")]>>

---------------------------------------------------------------------------
(* C2: for every base-filter dict, build_query returns the concatenation, in
   iteration order, of exactly one clause per recognized key (days, minutes,
   hostname, username, each in its documented form); every unrecognized key
   adds no text and produces one warning naming it; the empty dict yields the
   empty string; the call always returns. *)
C2_BuildQueryClauses ==
    /\ pc = "build_query" => ENABLED BuildQuery
    /\ pc = "built" =>
        /\ query_base = ExpectedBase(base_query)
        /\ Len(echo) = Len(Unrecognized(base_query))
        /\ \A k \in 1..Len(echo) :
              /\ echo[k].level = "WARNING"
              /\ Contains(echo[k].message, Unrecognized(base_query)[k].key)
        /\ base_query = << >> => query_base = ""

C2_Witness ==
    /\ pc = "built"
    /\ Len(base_query) = 3
    /\ Len(echo) = 1
    /\ base_query[1].key = "minutes"
    /\ base_query[3].key = "hostname"
    /\ query_base = "| where Timestamp > ago(30m)| where DeviceName contains \"WIN10\""

---------------------------------------------------------------------------
(* C1: for every mapped field with its terms and every base-filter dict, one
   search is made for the criteria item, and its query is
   <table> | where <column> has_any (<terms>) [<joins>] <base clause> | project <columns>:
   every term single-quoted, the terms joined by ", ", the query ending with
   "| project " and the field's projected columns in declared order joined by
   ", ".  {process_name: [evil.exe]} with {days: 7, hostname: WIN10} gives
   exactly the documented query string. *)
C1_FieldQueryForm ==
    /\ \A n \in 1..Len(criteria) :
          (Processed(n) /\ IsMapped(criteria[n])) =>
              /\ Cardinality(SearchesOf(n)) = 1
              /\ \A k \in SearchesOf(n) :
                    LET q == queries[k].Query
                        m == PARAMETER_MAPPING[criteria[n].key]
                        terms == criteria[n].terms.items
                        quoted == [t \in 1..Len(terms) |-> "'" \o terms[t] \o "'"]
                        columns == Separated(m.projections, ", ")
                    IN  /\ q = m.table \o " | where " \o m.field \o " has_any ("
                                 \o Separated(quoted, ", ") \o ") "
                                 \o Separated(m.additional, "") \o " "
                                 \o ExpectedBase(base_query)
                                 \o " | project " \o columns
                        /\ \A t \in 1..Len(terms) : Contains(q, quoted[t])
                        /\ EndsWith(q, "| project " \o columns)
    /\ (/\ pc = "done" /\ ~interrupted
        /\ criteria = <<[key |-> "process_name", terms |-> Terms(TRUE, <<"evil.exe">>)]>>
        /\ base_query = Scenario7Days) =>
           /\ Len(queries) = 1
           /\ queries[1].Query =
                 "DeviceProcessEvents | where FolderPath has_any ('evil.exe')  | where Timestamp > ago(7d)| where DeviceName contains \"WIN10\" | project DeviceName, AccountName, FolderPath, ProcessCommandLine"

C1_Witness ==
    /\ pc = "done" /\ ~interrupted
    /\ criteria = <<[key |-> "process_name", terms |-> Terms(TRUE, <<"evil.exe">>)]>>
    /\ base_query = Scenario7Days
    /\ Len(queries) = 1

---------------------------------------------------------------------------
(* C3: a criteria item whose key is neither `query` nor mapped gets no search
   and exactly one warning, and the items after it are still processed;
   {bogus_field: [x]} alone gives no query, one warning, and one call of the
   sink with an empty list. *)
C3_UnmappedFieldSkipped ==
    /\ \A n \in 1..Len(criteria) :
          (Processed(n) /\ IsUnmapped(criteria[n])) =>
              /\ SearchesOf(n) = {}
              /\ Len(WarningsFor(criteria[n].key)) = 1
    /\ (pc = "done" /\ ~interrupted) =>
          \A n \in 1..Len(criteria) :
              Cardinality(SearchesOf(n)) =
                  IF IsUnmapped(criteria[n]) THEN 0
                  ELSE IF IsRaw(criteria[n]) /\ criteria[n].terms.list
                       THEN Len(criteria[n].terms.items)
                       ELSE 1
    /\ (/\ pc = "done" /\ ~interrupted
        /\ criteria = <<[key |-> "bogus_field", terms |-> Terms(TRUE, <<"x">>)]>>
        /\ Unrecognized(base_query) = << >>) =>
           /\ queries = << >>
           /\ Len(Warnings) = 1
           /\ sink = <<{}>>

C3_Witness ==
    /\ pc = "done" /\ ~interrupted
    /\ Len(criteria) = 2
    /\ IsUnmapped(criteria[1])
    /\ IsMapped(criteria[2])
    /\ Len(queries) = 1
    /\ Len(WarningsFor("bogus_field")) = 1

---------------------------------------------------------------------------
(* C4: a call of nested_process_search calls the sink exactly once, after its
   last search: when the loop ends, when nothing maps (the sink gets an empty
   list), and when a KeyboardInterrupt arrives during the iteration, which is
   caught: no criteria item is processed after it, and the sink is called. *)
C4_SinkInvokedOnce ==
    /\ [](/\ pc = "done" => Len(sink) = 1
          /\ pc # "done" => sink = << >>
          /\ interrupted => pc \in {"add_results", "done"}
          /\ (pc = "done" /\ queries = << >>) => sink = <<{}>>)
    /\ [][/\ (pc \in {"for", "for_query", "process_search"} /\ interrupted')
                => (pc' = "add_results" /\ queries' = queries)
          /\ pc \in {"add_results", "done"}
                => (queries' = queries /\ i' = i /\ call' = call /\ echo' = echo)
          /\ pc = "add_results" => (pc' = "done" /\ Len(sink') = 1)]_vars

C4_Witness ==
    /\ pc = "done" /\ interrupted
    /\ Len(criteria) = 2
    /\ Len(queries) = 1
    /\ Len(sink) = 1

---------------------------------------------------------------------------
(* C5: every query string the expander builds is dispatched to
   _post_advanced_query, and the sink receives the results of those queries. *)
C5_EveryQueryDispatched ==
    \A k \in 1..Len(queries) :
        /\ queries[k].Query \in {posted[p].Query : p \in 1..Len(posted)}
        /\ pc = "done" =>
              \A p \in 1..Len(posted) : posted[p].results \subseteq UNION Range(sink)

---------------------------------------------------------------------------
(* C8 as stated: each raw query under `query` (each element of a list, or the
   scalar) gets exactly one search, whose query is the raw string followed by
   the base clause, applied once; with no base filters it is the raw string
   unchanged. *)
RawOf(k) ==
    LET item == criteria[queries[k].entry]
    IN  IF item.terms.list THEN item.terms.items[queries[k].item] ELSE item.terms.items[1]

C8_RawQueryVerbatim ==
    \A k \in 1..Len(queries) :
        IsRaw(criteria[queries[k].entry]) =>
            /\ queries[k].Query = RawOf(k) \o ExpectedBase(base_query)
            /\ base_query = << >> => queries[k].Query = RawOf(k)

(* C8 as amended: each raw query gets exactly one search, whose query is the
   raw string followed by the base clause, applied once, with trailing
   whitespace removed: the query does not end in whitespace, and what was
   removed from raw + base clause is whitespace only. *)
OnlyWhitespace(s) == \A a \in 1..Len(s) : SubSeq(s, a, a) \in Whitespace

C8_RawQueryStripped ==
    /\ \A k \in 1..Len(queries) :
          IsRaw(criteria[queries[k].entry]) =>
              LET q == queries[k].Query
                  full == RawOf(k) \o ExpectedBase(base_query)
              IN  /\ StartsWith(full, q)
                  /\ OnlyWhitespace(SubSeq(full, Len(q) + 1, Len(full)))
                  /\ ~\E w \in Whitespace : EndsWith(q, w)
                  /\ queries[k].item = IF criteria[queries[k].entry].terms.list
                                       THEN Cardinality({h \in 1..k :
                                                queries[h].entry = queries[k].entry})
                                       ELSE 0
    /\ \A n \in 1..Len(criteria) :
          (Processed(n) /\ IsRaw(criteria[n])) =>
              Cardinality(SearchesOf(n)) =
                  IF criteria[n].terms.list THEN Len(criteria[n].terms.items) ELSE 1

C8_Witness ==
    /\ pc = "done" /\ ~interrupted
    /\ base_query = << >>
    /\ Len(queries) = 2
    /\ criteria[1].terms.list
    /\ queries[1].Query = "DeviceInfo | take 1"
    /\ queries[2].Query = "DeviceEvents | where ActionType == 'AntivirusDetection'"

---------------------------------------------------------------------------
(* C9: the searches of a call are made one at a time in the iteration order of
   criteria, and in list order within a list-form `query`: when a search is
   started, the searches of all earlier items have completed. *)

\* The searches a criteria item asks for, as <<item index, list index>>.
RECURSIVE SearchOrder(_)
SearchOrder(n) ==
    IF n = 0 THEN << >>
    ELSE SearchOrder(n - 1) \o
         (IF IsUnmapped(criteria[n]) THEN << >>
          ELSE IF IsRaw(criteria[n]) /\ criteria[n].terms.list
               THEN [h \in 1..Len(criteria[n].terms.items) |-> <<n, h>>]
               ELSE <<<<n, 0>>>>)

C9_SequentialInOrder ==
    LET order == SearchOrder(Len(criteria))
        made == [k \in 1..Len(queries) |-> <<queries[k].entry, queries[k].item>>]
    IN  /\ Len(made) <= Len(order)
        /\ made = SubSeq(order, 1, Len(made))
        /\ Len(call) <= 1
        /\ call # << >> =>
              /\ pc = "process_search"
              /\ Len(made) < Len(order)
              /\ order[Len(made) + 1] = <<i, j>>
        /\ (pc = "done" /\ ~interrupted) => made = order

C9_Witness ==
    /\ pc = "process_search"
    /\ Len(criteria) = 2
    /\ i = 2
    /\ Len(queries) = 2
    /\ criteria[1].key = "query"

---------------------------------------------------------------------------
(* C10: in one call each unsupported base-filter key is warned of exactly
   once, whatever the criteria hold: the warnings of a call number the
   unsupported base-filter keys plus the unmapped criteria fields. *)
C10_WarningCount ==
    (pc = "done" /\ ~interrupted) =>
        Len(Warnings) =
            Len(Unrecognized(base_query))
            + Len(SelectSeq(criteria, LAMBDA item : IsUnmapped(item)))

---------------------------------------------------------------------------
(* C6: for a response whose status is not 200, whatever its body,
   _post_advanced_query returns an empty sequence and reports exactly one
   diagnostic, which contains the status code. *)
C6_NonSuccessReported ==
    (/\ pc = "returned" /\ ~interrupted
     /\ response.net = "ok" /\ response.status_code # 200) =>
        /\ returned = <<{}>>
        /\ Len(echo) = 1
        /\ Contains(echo[1].message, ToString(response.status_code))

---------------------------------------------------------------------------
(* C7: when anything but a KeyboardInterrupt fails inside
   _post_advanced_query (the network call, the decoding, the parsing of any
   row), the error is reported and the call returns an empty sequence. *)
C7_FailureReturnsEmpty ==
    (pc = "returned" /\ log_exception # << >>) =>
        /\ returned = <<{}>>
        /\ Len(echo) = 1

====
